---- MODULE Spec2Model ----
(***************************************************************************)
(* A model of graik/consScore: the OMA ortholog client (cons.py), the     *)
(* sequence validator and the Rate4Site wrapper (aminoCons.py).           *)
(*                                                                         *)
(* Text is modelled character by character: a Python str is a sequence of *)
(* one-character strings.  The platform is POSIX: os.linesep is "\n".     *)
(* A call's outcome is a record [exc, val]: exc = "none" and the returned *)
(* value, or the name of the exception that left the call.                *)
(***************************************************************************)
EXTENDS Integers, Sequences, FiniteSets, TLC

VARIABLES
    arg,             \* the string handed to a text helper (classmethod call)
    finder,          \* the OrthologFinder instance's attributes
    op,              \* the operation performed last
    ret,             \* its outcome: [exc, val]
    reqs,            \* the HTTP requests the last operation issued
    resp_status,     \* the status code of the last response it received (0: none)
    resp_body,       \* the body of the response handed to a single HTTP operation
    first_orthologs, \* history: the value of the first successful get_orthologs
    first_HOGs,      \* history: the value of the first successful get_HOGs
    fetched_orthologs, \* history: the text of the last ortholog FASTA fetch answered 200
    fetched_HOGs,    \* history: the text of the last HOG FASTA fetch answered 200
    calls,           \* history: the calls of get_orthologs and get_HOGs made, modulo
                     \* 2; it tells a call that changes nothing from no call at all
    r4s,             \* the Rate4Site instance's attributes
    file,            \* the file at Rate4Site.score_output
    flags,           \* the column flags of the last read2matrix call
    execs,           \* how often the external rate4site program was invoked
    ok_runs          \* history: the run() calls that have succeeded since
                     \* construction or the last close(): 0, 1, or 2 for more

vars == <<arg, finder, op, ret, reqs, resp_status, resp_body, first_orthologs, first_HOGs,
          fetched_orthologs, fetched_HOGs, calls, r4s, file, flags, execs, ok_runs>>

-----------------------------------------------------------------------------
(* Bounds of the model.                                                    *)

MaxLen == 5          \* longest string handed to a text helper
MaxTargets == 2      \* longest JSON array in a response body
MaxLines == 3        \* most lines of a Rate4Site output file
MaxExecs == 3        \* most invocations of the external program in a run

-----------------------------------------------------------------------------
(* Python values.                                                          *)

linesep == "\n"
Letters == {"A", "C", "M", "K", "I", "n", "p", "u", "t", "S", "e", "q", "c",
            "a", "l", "h", "r", "m", "T", "s"}
Digits == {"0", "1", "2", "3", "4", "5", "6", "7", "8", "9"}

Ok(v) == [exc |-> "none", val |-> v]
Raise(e) == [exc |-> e, val |-> <<>>]

isalpha(c) == c \in Letters
startswith(s, c) == Len(s) > 0 /\ s[1] = c

\* str.split(sep) for a one-character separator: n separators, n+1 pieces
RECURSIVE split(_, _)
split(s, c) ==
    IF \A i \in 1..Len(s) : s[i] # c THEN <<s>>
    ELSE LET i == CHOOSE k \in 1..Len(s) : s[k] = c /\ \A j \in 1..(k-1) : s[j] # c
         IN  <<SubSeq(s, 1, i-1)>> \o split(SubSeq(s, i+1, Len(s)), c)

\* str.splitlines(): as split, without the empty piece a trailing separator leaves
splitlines(s) ==
    LET p == split(s, linesep)
    IN  IF p[Len(p)] = <<>> THEN SubSeq(p, 1, Len(p)-1) ELSE p

\* list(filter(None, l)): the non-empty strings of l, in order
RECURSIVE filter_nonempty(_)
filter_nonempty(l) ==
    IF l = <<>> THEN <<>>
    ELSE (IF Head(l) = <<>> THEN <<>> ELSE <<Head(l)>>) \o filter_nonempty(Tail(l))

\* ''.join(l)
RECURSIVE join(_)
join(l) == IF l = <<>> THEN <<>> ELSE Head(l) \o join(Tail(l))

\* list.remove(x): l without the first element equal to x
RECURSIVE list_remove(_, _)
list_remove(l, x) ==
    IF l = <<>> THEN <<>>
    ELSE IF Head(l) = x THEN Tail(l) ELSE <<Head(l)>> \o list_remove(Tail(l), x)

-----------------------------------------------------------------------------
(* cons.py: the FASTA text helpers of OrthologFinder.                      *)

HeaderLine == <<">", "I", "n", "p", "u", "t", " ", "S", "e", "q", "u", "e", "n", "c", "e">>

header_check(sequences) ==
    IF startswith(sequences, ">") THEN Ok(sequences)
    ELSE IF sequences = <<>> THEN Raise("SequenceError")
    ELSE IF isalpha(sequences[1]) THEN Ok(HeaderLine \o <<linesep>> \o sequences)
    ELSE Raise("SequenceError")

\* ortholog_checker without the isalpha test on the first character
ortholog_checker_anychar(sequences) ==
    IF startswith(sequences, ">") THEN Ok(sequences)
    ELSE IF sequences = <<>> THEN Raise("SequenceError")
    ELSE Ok(HeaderLine \o <<linesep>> \o sequences)

ortholog_checker(sequences) ==
    IF startswith(sequences, ">") THEN Ok(sequences)
    ELSE IF sequences = <<>> THEN Raise("SequenceError")
    ELSE IF isalpha(sequences[1]) THEN Ok(HeaderLine \o <<linesep>> \o sequences)
    ELSE Raise("SequenceError")

\* ['>' + f for f in filter(None, re.split('>', st))], or [st]
indv_block(st) ==
    IF startswith(st, ">")
    THEN LET fstr == filter_nonempty(split(st, ">"))
         IN  [i \in 1..Len(fstr) |-> <<">">> \o fstr[i]]
    ELSE <<st>>

\* for f in fstr: if f.startswith('>'): fstr.remove(f)
\* The list iterator holds an index into the list that the body shrinks.
RECURSIVE remove_headers(_, _)
remove_headers(fstr, i) ==
    IF i > Len(fstr) THEN fstr
    ELSE IF startswith(fstr[i], ">")
         THEN remove_headers(list_remove(fstr, fstr[i]), i + 1)
         ELSE remove_headers(fstr, i + 1)

get_fasta_sequence(fasta) ==
    LET blocks == indv_block(fasta)
    IN  IF blocks = <<>> THEN Raise("IndexError")
        ELSE Ok(join(remove_headers(splitlines(blocks[1]), 1)))

seqnwl_strip(string) ==
    LET seqhead == header_check(string)
    IN  IF seqhead.exc # "none" THEN seqhead
        ELSE LET newlist == filter_nonempty(split(seqhead.val, linesep))
             IN  IF Len(newlist) < 2 THEN Raise("IndexError")
                 ELSE LET header == newlist[1] \o <<linesep>> \o newlist[2]
                      IN  Ok(join(<<header>> \o Tail(newlist)))

-----------------------------------------------------------------------------
(* cons.py: OrthologFinder and its HTTP operations.  A response is a       *)
(* record [status, body]; the body read depends on the operation: the      *)
(* omaids of the "targets" array, the "level"s of a HOG list, the          *)
(* "canonicalid"s of an ortholog list, or the text of a FASTA response.    *)

Unset == <<"<unset>">>       \* an attribute __init__ never assigns
PyNone == <<"<None>">>       \* the value of a call that returns nothing

MsgRequest == "There was an issue querying the database. Status code "
MsgTimeout == "The database timed out. Could not determine the orthologs of your sequence. Status code "
MsgEmpty == "Input sequence is empty!"

\* '{0}'.format(n) for an int n >= 0: its decimal digits
DigitChar(d) == CASE d = 0 -> "0" [] d = 1 -> "1" [] d = 2 -> "2" [] d = 3 -> "3"
                  [] d = 4 -> "4" [] d = 5 -> "5" [] d = 6 -> "6" [] d = 7 -> "7"
                  [] d = 8 -> "8" [] d = 9 -> "9"
RECURSIVE format(_)
format(n) == IF n < 10 THEN <<DigitChar(n)>> ELSE format(n \div 10) \o <<DigitChar(n % 10)>>

OrthologFinder(fasta) ==
    [fasta |-> fasta, sequence |-> <<>>, id |-> "", ortholog_ids |-> <<>>,
     orthologs |-> <<>>, HOGs |-> Unset, hog_level |-> "<unset>",
     has_run |-> FALSE, has_run_hogs |-> FALSE, save_status |-> 0]

\* What a method call leaves: the instance, the outcome, the requests it issued
\* and the status of the last response it received.
Step(s, out, n, st) == [s |-> s, out |-> out, n |-> n, st |-> st]

read_resp_retOMA(s, response) ==
    IF response.body = <<>> THEN [s |-> s, out |-> Raise("IndexError")]
    ELSE [s |-> [s EXCEPT !.id = response.body[1]], out |-> Ok(PyNone)]

retrieve_OMAid(s, response) ==
    IF response.status = 200
    THEN LET r == read_resp_retOMA(s, response) IN Step(r.s, r.out, 1, 200)
    ELSE IF response.status = 504
    THEN Step([s EXCEPT !.save_status = response.status], Raise("TimeoutError"),
              1, response.status)
    ELSE Step([s EXCEPT !.save_status = response.status], Raise("RequestException"),
              1, response.status)

read_HOGid(s, response) ==
    IF response.body = <<>> THEN [s |-> s, out |-> Raise("IndexError")]
    ELSE [s |-> [s EXCEPT !.hog_level = response.body[1]],
          out |-> Ok(<<response.body[1]>>)]

retrieve_HOGS(s, response) ==
    IF response.status = 200
    THEN LET r == read_HOGid(s, response) IN Step(r.s, r.out, 1, 200)
    ELSE IF response.status = 504
    THEN Step([s EXCEPT !.save_status = response.status], Raise("TimeoutError"),
              1, response.status)
    ELSE Step([s EXCEPT !.save_status = response.status], Raise("RequestException"),
              1, response.status)

read_resp_upOMA(s, response) ==
    [s EXCEPT !.ortholog_ids = s.ortholog_ids \o response.body]

update_OMA_orthoIDs(s, response) ==
    IF response.status = 200
    THEN Step(read_resp_upOMA(s, response), Ok(PyNone), 1, 200)
    ELSE Step([s EXCEPT !.save_status = response.status], Raise("RequestException"),
              1, response.status)

ortholog_to_fasta(s, response) ==
    IF response.status = 200
    THEN Step([s EXCEPT !.orthologs = response.body], Ok(response.body), 1, 200)
    ELSE Step([s EXCEPT !.save_status = response.status], Raise("RequestException"),
              1, response.status)

\* build_url reads self.hog_level before the request is made
HOG_to_fasta(s, response) ==
    IF s.hog_level = "<unset>" THEN Step(s, Raise("AttributeError"), 0, 0)
    ELSE IF response.status = 200
    THEN Step([s EXCEPT !.HOGs = response.body], Ok(response.body), 1, 200)
    ELSE Step([s EXCEPT !.save_status = response.status], Raise("RequestException"),
              1, response.status)

\* the steps a and b of one call, b after a: requests add up, the last response wins
Then(a, b) == Step(b.s, b.out, a.n + b.n, IF b.n > 0 THEN b.st ELSE a.st)

get_HOGs(s, r1, r2, r3) ==
    LET seq == get_fasta_sequence(s.fasta)
    IN  IF seq.exc # "none" THEN Step(s, seq, 0, 0)
        ELSE LET s1 == [s EXCEPT !.sequence = seq.val]
                 a == retrieve_OMAid(s1, r1)
                 b == Then(a, retrieve_HOGS(a.s, r2))
                 c == Then(b, HOG_to_fasta(b.s, r3))
             IN  IF s1.has_run_hogs THEN Step(s1, Ok(s1.HOGs), 0, 0)
                 ELSE IF a.out.exc # "none" THEN a
                 ELSE IF b.out.exc # "none" THEN b
                 ELSE IF c.out.exc # "none" THEN c
                 ELSE Step([c.s EXCEPT !.has_run_hogs = TRUE], c.out, c.n, c.st)

\* the except clauses of get_orthologs; any other exception leaves the call
get_orthologs_except(a) ==
    CASE a.out.exc = "RequestException" ->
            Step(a.s, Ok(<<MsgRequest>> \o format(a.s.save_status)), a.n, a.st)
      [] a.out.exc = "TimeoutError" ->
            Step(a.s, Ok(<<MsgTimeout>> \o format(a.s.save_status)), a.n, a.st)
      [] a.out.exc = "IndexError" -> Step(a.s, Ok(<<MsgEmpty>>), a.n, a.st)
      [] OTHER -> a

\* get_orthologs with self.has_run = True moved up, before seqnwl_strip
get_orthologs_flag_early(s, r1, r2) ==
    LET seq == get_fasta_sequence(s.fasta)
    IN  IF seq.exc # "none" THEN get_orthologs_except(Step(s, seq, 0, 0))
        ELSE LET s1 == [s EXCEPT !.sequence = seq.val]
                 a == retrieve_OMAid(s1, r1)
                 b == Then(a, ortholog_to_fasta(a.s, r2))
                 s2 == [b.s EXCEPT !.has_run = TRUE]
                 strip == seqnwl_strip(s1.fasta)
             IN  IF s1.has_run THEN Step(s1, Ok(s1.orthologs), 0, 0)
                 ELSE IF a.out.exc # "none" THEN get_orthologs_except(a)
                 ELSE IF b.out.exc # "none" THEN get_orthologs_except(b)
                 ELSE IF strip.exc # "none"
                      THEN get_orthologs_except(Step(s2, strip, b.n, b.st))
                 ELSE Step(s2, Ok(strip.val \o <<linesep>> \o b.out.val), b.n, b.st)

get_orthologs(s, r1, r2) ==
    LET seq == get_fasta_sequence(s.fasta)
    IN  IF seq.exc # "none" THEN get_orthologs_except(Step(s, seq, 0, 0))
        ELSE LET s1 == [s EXCEPT !.sequence = seq.val]
                 a == retrieve_OMAid(s1, r1)
                 b == Then(a, ortholog_to_fasta(a.s, r2))
                 strip == seqnwl_strip(s1.fasta)
             IN  IF s1.has_run THEN Step(s1, Ok(s1.orthologs), 0, 0)
                 ELSE IF a.out.exc # "none" THEN get_orthologs_except(a)
                 ELSE IF b.out.exc # "none" THEN get_orthologs_except(b)
                 ELSE IF strip.exc # "none"
                      THEN get_orthologs_except(Step(b.s, strip, b.n, b.st))
                 ELSE Step([b.s EXCEPT !.has_run = TRUE],
                           Ok(strip.val \o <<linesep>> \o b.out.val), b.n, b.st)

-----------------------------------------------------------------------------
(* The inputs the model draws from.                                        *)

\* all sequences over S of length at most n
SeqsUpTo(S, n) == UNION {[1..k -> S] : k \in 0..n}

Statuses == {200, 404, 504}
OmaIds == {"X", "Y"}
LevelBodies == {<<>>, <<"L1">>, <<"L2", "L1">>}
CanonicalIds == {"P", "Q"}
FastaTexts == {<<">", "s", linesep, "K">>, <<">", "t", linesep, "M">>}
\* a 200 response carries a body; the body of a failure is never read
Responses(bodies) ==
    {[status |-> 200, body |-> b] : b \in bodies}
        \cup {[status |-> st, body |-> <<>>] : st \in Statuses \ {200}}

FastaAlphabet == {">", "A", "C", linesep, "1"}
FastaInputs == {<<">", "h", linesep, "A", "C", linesep, "C", "A">>,
                <<">", "h", linesep, "A", "C">>,
                <<"A", "C">>,
                <<">", "h">>,
                <<">">>,
                <<>>,
                <<"1", "A">>}

NoValue == [set |-> FALSE, val |-> <<>>]
NoResult == [rows |-> <<>>, ncols |-> -1]     \* Executor.result before any run
NoFlags == <<FALSE, FALSE, FALSE, FALSE, FALSE>>
Absent == [exists |-> FALSE, contents |-> <<>>]
\* Rate4Site(msa, cwdir=...): the output file lies in the temporary directory
\* that close() removes unless another cwdir is given
Rate4Site(cwdir) ==
    [has_run |-> FALSE, alpha |-> <<0, 0>>, result |-> NoResult,
     cwd_is_tempdir |-> ~cwdir]

IdleText == arg = <<>>
IdleFinder ==
    /\ finder = OrthologFinder(<<>>)
    /\ reqs = 0 /\ resp_status = 0 /\ resp_body = <<>>
    /\ first_orthologs = NoValue /\ first_HOGs = NoValue
    /\ fetched_orthologs = NoValue /\ fetched_HOGs = NoValue /\ calls = 0
IdleR4S ==
    /\ r4s = Rate4Site(FALSE) /\ file = Absent /\ flags = NoFlags
    /\ execs = 0 /\ ok_runs = 0
textVars == <<arg>>
finderVars == <<finder, reqs, resp_status, resp_body, first_orthologs, first_HOGs,
                fetched_orthologs, fetched_HOGs, calls>>
r4sVars == <<r4s, file, flags, execs, ok_runs>>

-----------------------------------------------------------------------------
(* Spec: one OrthologFinder and its two orchestration calls, every request *)
(* answered by an arbitrary response.                                      *)

Msgs == {MsgRequest, MsgTimeout, MsgEmpty}
\* the call returned its result, not an error string and not an exception
Succeeded(out) == out.exc = "none" /\ ~(out.val # <<>> /\ out.val[1] \in Msgs)
\* the call got as far as its k-th request, the FASTA fetch, and that was answered 200
FastaFetched(r, k) == r.n = k /\ r.st = 200
Remember(first, out) ==
    IF ~first.set /\ Succeeded(out) THEN [set |-> TRUE, val |-> out.val] ELSE first

Init ==
    /\ finder \in {OrthologFinder(f) : f \in FastaInputs}
    /\ op = "init" /\ ret = Ok(PyNone)
    /\ reqs = 0 /\ resp_status = 0 /\ resp_body = <<>>
    /\ first_orthologs = NoValue /\ first_HOGs = NoValue
    /\ fetched_orthologs = NoValue /\ fetched_HOGs = NoValue /\ calls = 0
    /\ IdleText /\ IdleR4S

Finish(name, r) ==
    /\ finder' = r.s
    /\ op' = name
    /\ ret' = r.out
    /\ reqs' = r.n
    /\ resp_status' = r.st
    /\ calls' = (calls + 1) % 2
    /\ UNCHANGED <<resp_body, textVars, r4sVars>>

GetOrthologs ==
    \E r1 \in Responses(SeqsUpTo(OmaIds, MaxTargets)), r2 \in Responses(FastaTexts) :
      \E r \in {get_orthologs(finder, r1, r2)} :
        /\ Finish("get_orthologs", r)
        /\ first_orthologs' = Remember(first_orthologs, r.out)
        /\ fetched_orthologs' = IF FastaFetched(r, 2) THEN [set |-> TRUE, val |-> r2.body]
                                ELSE fetched_orthologs
        /\ UNCHANGED <<first_HOGs, fetched_HOGs>>

GetHOGs ==
    \E r1 \in Responses(SeqsUpTo(OmaIds, MaxTargets)),
       r2 \in Responses(LevelBodies),
       r3 \in Responses(FastaTexts) :
      \E r \in {get_HOGs(finder, r1, r2, r3)} :
        /\ Finish("get_HOGs", r)
        /\ first_HOGs' = Remember(first_HOGs, r.out)
        /\ fetched_HOGs' = IF FastaFetched(r, 3) THEN [set |-> TRUE, val |-> r3.body]
                           ELSE fetched_HOGs
        /\ UNCHANGED <<first_orthologs, fetched_orthologs>>

Next == GetOrthologs \/ GetHOGs

Spec == Init /\ [][Next]_vars

-----------------------------------------------------------------------------
(* Claims about the orchestration calls (specification Spec).              *)

\* C1: once get_orthologs (respectively get_HOGs) has succeeded on an instance,
\* every later call of the same method returns the value of that first
\* successful call and issues no HTTP request.
C1_LaterCallsRepeatFirstResult ==
    [][ /\ (first_orthologs.set /\ op' = "get_orthologs")
            => (ret' = Ok(first_orthologs.val) /\ reqs' = 0)
        /\ (first_HOGs.set /\ op' = "get_HOGs")
            => (ret' = Ok(first_HOGs.val) /\ reqs' = 0) ]_vars

\* C3: no remote failure (a timeout, a non-200 status) leaves get_orthologs or
\* get_HOGs as an exception: the call returns a string instead.
C3_NoRemoteFailurePropagates ==
    op \in {"get_orthologs", "get_HOGs"}
        => ret.exc \notin {"TimeoutError", "RequestException"}

\* the header line of the query record: the input's own, or the default one
QueryHeader(fasta) == Head(split(header_check(fasta).val, linesep))
\* the text is one FASTA record made of that header line and that sequence
IsRecordOf(text, header, sequence) ==
    /\ startswith(text, ">")
    /\ Head(split(text, linesep)) = header
    /\ get_fasta_sequence(text) = Ok(sequence)

\* C11: every successful result of get_orthologs, from the first run or from
\* a later cached one, is the query record (the header line and the sequence
\* of the input) followed by the FASTA text the remote service returned.
C11_QueryRecordIsFirst ==
    (op = "get_orthologs" /\ Succeeded(ret))
        => LET entries == indv_block(ret.val)
           IN  /\ Len(entries) >= 2
               /\ IsRecordOf(entries[1], QueryHeader(finder.fasta), finder.sequence)
               /\ join(Tail(entries)) = finder.orthologs

\* the validator rejects the input: it is empty, or its first character is
\* neither '>' nor alphabetic
Rejected(fasta) == header_check(fasta).exc = "SequenceError"

\* C12: get_orthologs and get_HOGs validate the input before they issue any
\* HTTP request: a call on an input the validator rejects makes no request.
C12_RejectedInputIssuesNoRequest ==
    (op \in {"get_orthologs", "get_HOGs"} /\ Rejected(finder.fasta)) => reqs = 0

\* The flags over one call.  A flag is True only with the text of a FASTA fetch
\* answered 200 in its attribute, and turns True only in a call of its own
\* method that made that fetch; a call that returns an error string or raises
\* leaves both flags as they were; no method changes the other's flag.
FlagsFollowFetches ==
    /\ finder'.has_run
         => (fetched_orthologs'.set /\ finder'.orthologs = fetched_orthologs'.val)
    /\ finder'.has_run_hogs
         => (fetched_HOGs'.set /\ finder'.HOGs = fetched_HOGs'.val)
    /\ (finder'.has_run /\ ~finder.has_run)
         => (op' = "get_orthologs" /\ reqs' = 2 /\ resp_status' = 200)
    /\ (finder'.has_run_hogs /\ ~finder.has_run_hogs)
         => (op' = "get_HOGs" /\ reqs' = 3 /\ resp_status' = 200)
    /\ ~Succeeded(ret')
         => (finder'.has_run = finder.has_run
             /\ finder'.has_run_hogs = finder.has_run_hogs)
    /\ op' = "get_orthologs" => finder'.has_run_hogs = finder.has_run_hogs
    /\ op' = "get_HOGs" => finder'.has_run = finder.has_run
\* the call of method m that follows a failed call of m
AfterFailed(m) == op = m /\ ~Succeeded(ret) /\ op' = m
\* get_fasta_sequence finds a first record in the input
Extractable(fasta) == get_fasta_sequence(fasta).exc = "none"

\* C13 as stated: the flags follow the fetches, and the call of a method that
\* follows a failed call of that method queries the service again.
C13_FailedCallIsRetried ==
    [][ /\ FlagsFollowFetches
        /\ \A m \in {"get_orthologs", "get_HOGs"} : AfterFailed(m) => reqs' > 0 ]_vars

\* C13, amended: the flags follow the fetches, and a call of a method whose
\* flag is False (so every call that follows a failed one) queries the service
\* again provided the input holds a first record; on an input that holds none
\* every call fails before any request.
C13_FailedCallIsRetriedIfExtractable ==
    [][ /\ FlagsFollowFetches
        /\ \A m \in {"get_orthologs", "get_HOGs"} :
              (AfterFailed(m) /\ Extractable(finder.fasta)) => reqs' > 0
        /\ (~finder.has_run /\ op' = "get_orthologs" /\ Extractable(finder.fasta))
              => reqs' > 0
        /\ (~finder.has_run_hogs /\ op' = "get_HOGs" /\ Extractable(finder.fasta))
              => reqs' > 0
        /\ (op' \in {"get_orthologs", "get_HOGs"} /\ ~Extractable(finder.fasta))
              => (reqs' = 0 /\ ~Succeeded(ret')) ]_vars

\* get_HOGs has succeeded, and a get_orthologs call whose fetch was answered
\* 200 has failed afterwards: its text is stored, has_run is still False
C13_Witness ==
    /\ op = "get_orthologs" /\ ~Succeeded(ret) /\ reqs = 2
    /\ fetched_orthologs.set /\ finder.orthologs = fetched_orthologs.val
    /\ ~finder.has_run /\ finder.has_run_hogs

-----------------------------------------------------------------------------
(* SpecHTTP: the five HTTP operations called one at a time on an instance, *)
(* each answered by an arbitrary response.                                 *)

MaxOrthoIds == 3     \* longest ortholog_ids list the model lets accumulate

InitHTTP ==
    /\ finder = OrthologFinder(<<">", "h", linesep, "A", "C">>)
    /\ op = "init" /\ ret = Ok(PyNone)
    /\ reqs = 0 /\ resp_status = 0 /\ resp_body = <<>>
    /\ first_orthologs = NoValue /\ first_HOGs = NoValue
    /\ fetched_orthologs = NoValue /\ fetched_HOGs = NoValue /\ calls = 0
    /\ IdleText /\ IdleR4S

FinishHTTP(name, response, r) ==
    /\ finder' = r.s
    /\ op' = name
    /\ ret' = r.out
    /\ reqs' = r.n
    /\ resp_status' = r.st
    /\ resp_body' = IF r.n > 0 THEN response.body ELSE <<>>
    /\ UNCHANGED <<first_orthologs, first_HOGs, fetched_orthologs, fetched_HOGs, calls,
                   textVars, r4sVars>>

CallRetrieveOMAid ==
    \E response \in Responses(SeqsUpTo(OmaIds, MaxTargets)) :
        FinishHTTP("retrieve_OMAid", response, retrieve_OMAid(finder, response))

CallRetrieveHOGS ==
    \E response \in Responses(LevelBodies) :
        FinishHTTP("retrieve_HOGS", response, retrieve_HOGS(finder, response))

CallUpdateOMAOrthoIDs ==
    \E response \in Responses(SeqsUpTo(CanonicalIds, MaxTargets)) :
        /\ Len(finder.ortholog_ids) + Len(response.body) <= MaxOrthoIds
        /\ FinishHTTP("update_OMA_orthoIDs", response,
                      update_OMA_orthoIDs(finder, response))

CallOrthologToFasta ==
    \E response \in Responses(FastaTexts) :
        FinishHTTP("ortholog_to_fasta", response, ortholog_to_fasta(finder, response))

CallHOGToFasta ==
    \E response \in Responses(FastaTexts) :
        FinishHTTP("HOG_to_fasta", response, HOG_to_fasta(finder, response))

NextHTTP ==
    \/ CallRetrieveOMAid
    \/ CallRetrieveHOGS
    \/ CallUpdateOMAOrthoIDs
    \/ CallOrthologToFasta
    \/ CallHOGToFasta

SpecHTTP == InitHTTP /\ [][NextHTTP]_vars

HTTPOps == {"retrieve_OMAid", "retrieve_HOGS", "update_OMA_orthoIDs",
            "ortholog_to_fasta", "HOG_to_fasta"}
RemoteFailures == {"TimeoutError", "RequestException"}

\* C2: every HTTP operation raises TimeoutError on status 504 and
\* RequestException on any other non-200 status, with save_status equal to the
\* status afterwards; on status 200 it raises neither.
C2_StatusDecidesTheError ==
    (op \in HTTPOps /\ reqs = 1) =>
        /\ resp_status = 504 => ret.exc = "TimeoutError"
        /\ resp_status \notin {200, 504} => ret.exc = "RequestException"
        /\ resp_status # 200 => finder.save_status = resp_status
        /\ resp_status = 200 => ret.exc \notin RemoteFailures

\* C10: on a 200 response with a non-empty targets array, retrieve_OMAid
\* returns the omaid of the first element of targets.
C10_ReturnsFirstTarget ==
    (op = "retrieve_OMAid" /\ resp_status = 200 /\ resp_body # <<>>)
        => ret = Ok(<<resp_body[1]>>)

\* What the code does there: the omaid of the first target is stored in
\* self.id, and the call itself returns None.
C10_StoresFirstTarget ==
    (op = "retrieve_OMAid" /\ resp_status = 200 /\ resp_body # <<>>)
        => (finder.id = resp_body[1] /\ ret = Ok(PyNone))

-----------------------------------------------------------------------------
(* SpecFasta: the text helpers applied to every string of at most MaxLen   *)
(* characters over FastaAlphabet.                                          *)

InitFasta ==
    /\ arg \in SeqsUpTo(FastaAlphabet, MaxLen)
    /\ op = "init" /\ ret = Ok(PyNone)
    /\ IdleFinder /\ IdleR4S

Apply(name, out) ==
    /\ op' = name
    /\ ret' = out
    /\ UNCHANGED <<arg, finderVars, r4sVars>>

CallHeaderCheck == Apply("header_check", header_check(arg))
CallOrthologChecker == Apply("ortholog_checker", ortholog_checker(arg))
CallSeqnwlStrip == Apply("seqnwl_strip", seqnwl_strip(arg))
CallGetFastaSequence == Apply("get_fasta_sequence", get_fasta_sequence(arg))

NextFasta ==
    \/ CallHeaderCheck
    \/ CallOrthologChecker
    \/ CallSeqnwlStrip
    \/ CallGetFastaSequence

SpecFasta == InitFasta /\ [][NextFasta]_vars

\* a single FASTA record: a header line starting with '>', then one or more
\* non-empty lines of letters, and no other '>'
BodyLines(x) == Tail(split(x, linesep))
SingleRecord(x) ==
    /\ startswith(x, ">")
    /\ \A i \in 2..Len(x) : x[i] # ">"
    /\ Len(split(x, linesep)) >= 2
    /\ Len(Head(split(x, linesep))) >= 2
    /\ \A i \in 1..Len(BodyLines(x)) :
          /\ BodyLines(x)[i] # <<>>
          /\ \A j \in 1..Len(BodyLines(x)[i]) : isalpha(BodyLines(x)[i][j])

\* C4: on a single-record FASTA string seqnwl_strip returns the header line,
\* one line separator, and the body lines concatenated in order, each exactly
\* once: the body get_fasta_sequence returns for the same input.
C4_StripJoinsBodyOnce ==
    (op = "seqnwl_strip" /\ SingleRecord(arg)) =>
        /\ ret.exc = "none"
        /\ ret.val = Head(split(arg, linesep)) \o <<linesep>> \o join(BodyLines(arg))
        /\ ret.val = Head(split(arg, linesep)) \o <<linesep>> \o get_fasta_sequence(arg).val

\* C9: the validator returns an input starting with '>' unchanged, fails with
\* SequenceError on the empty input and on an input whose first character is
\* neither '>' nor a letter, and returns any other input with the one line
\* '>Input Sequence' and a line separator put before it.
C9_ValidatorIsTotal ==
    (op \in {"header_check", "ortholog_checker"}) =>
        /\ startswith(arg, ">") => ret = Ok(arg)
        /\ arg = <<>> => ret.exc = "SequenceError"
        /\ (arg # <<>> /\ arg[1] # ">" /\ ~isalpha(arg[1])) => ret.exc = "SequenceError"
        /\ (arg # <<>> /\ isalpha(arg[1])) =>
              /\ ret.exc = "none"
              /\ Len(ret.val) = Len(arg) + 16
              /\ SubSeq(ret.val, 1, 16) =
                    <<">", "I", "n", "p", "u", "t", " ", "S", "e", "q", "u", "e",
                      "n", "c", "e", linesep>>
              /\ SubSeq(ret.val, 17, Len(ret.val)) = arg

C9_Witness ==
    /\ op = "ortholog_checker"
    /\ arg = <<"A", linesep, "C">>
    /\ ret.exc = "none" /\ Len(ret.val) = 19

-----------------------------------------------------------------------------
(* aminoCons.py: the parsers of Rate4Site's output file.  A float is the   *)
(* pair <<m, k>> with value m / 10^k, k the least possible.                *)

AlphaLiteral == <<"a", "l", "p", "h", "a", " ", "p", "a", "r", "a", "m", "e", "t", "e", "r">>

\* re.search('alpha parameter', s): the literal occurs somewhere in s
search_alpha(s) ==
    \E i \in 1..Len(s) :
        i + Len(AlphaLiteral) - 1 <= Len(s)
        /\ SubSeq(s, i, i + Len(AlphaLiteral) - 1) = AlphaLiteral

\* the digits at s[i], s[i+1], ...: how many there are
RECURSIVE digit_run(_, _)
digit_run(s, i) ==
    IF i <= Len(s) /\ s[i] \in Digits THEN 1 + digit_run(s, i + 1) ELSE 0

\* the length of the match of [0-9]*\.?[0-9]+ that starts at s[i], 0 if none
match_len(s, i) ==
    LET k == digit_run(s, i)
        f == IF i + k <= Len(s) /\ s[i + k] = "." THEN digit_run(s, i + k + 1) ELSE 0
    IN  IF f > 0 THEN k + 1 + f ELSE k

\* re.findall: the matches from left to right, none overlapping
RECURSIVE findall(_, _)
findall(s, i) ==
    IF i > Len(s) THEN <<>>
    ELSE IF match_len(s, i) > 0
         THEN <<SubSeq(s, i, i + match_len(s, i) - 1)>> \o findall(s, i + match_len(s, i))
         ELSE findall(s, i + 1)

DigitValue(c) == CASE c = "0" -> 0 [] c = "1" -> 1 [] c = "2" -> 2 [] c = "3" -> 3
                   [] c = "4" -> 4 [] c = "5" -> 5 [] c = "6" -> 6 [] c = "7" -> 7
                   [] c = "8" -> 8 [] c = "9" -> 9

RECURSIVE reduce(_, _)
reduce(m, k) == IF k > 0 /\ m % 10 = 0 THEN reduce(m \div 10, k - 1) ELSE <<m, k>>

\* float(tok) for a match of the pattern
RECURSIVE to_float(_, _, _, _)
to_float(tok, i, m, k) ==
    IF i > Len(tok) THEN reduce(m, k)
    ELSE IF tok[i] = "." THEN to_float(tok, i + 1, m, 0)
    ELSE to_float(tok, i + 1, 10 * m + DigitValue(tok[i]),
                  IF \E j \in 1..(i-1) : tok[j] = "." THEN k + 1 ELSE 0)

get_num(string) ==
    LET parameter == findall(string, 1)
    IN  [i \in 1..Len(parameter) |-> to_float(parameter[i], 1, 0, 0)]

\* for s in splitted: if re.search(...): parameter = s; break
RECURSIVE first_alpha_line(_)
first_alpha_line(splitted) ==
    IF splitted = <<>> THEN <<>>
    ELSE IF search_alpha(Head(splitted)) THEN Head(splitted)
    ELSE first_alpha_line(Tail(splitted))

\* the loop of get_alpha without its break: the last matching line is kept
RECURSIVE last_alpha_line(_, _)
last_alpha_line(splitted, parameter) ==
    IF splitted = <<>> THEN parameter
    ELSE last_alpha_line(Tail(splitted),
                         IF search_alpha(Head(splitted)) THEN Head(splitted) ELSE parameter)

get_alpha_no_break(r4s_file) ==
    IF ~r4s_file.exists THEN Raise("FileNotFoundError")
    ELSE LET parameter == get_num(last_alpha_line(split(r4s_file.contents, linesep), <<>>))
         IN  IF parameter = <<>> THEN Raise("Rate4SiteError") ELSE Ok(parameter[1])

\* get_alpha without its except clause: the IndexError leaves the call
get_alpha_uncaught(r4s_file) ==
    IF ~r4s_file.exists THEN Raise("FileNotFoundError")
    ELSE LET parameter == get_num(first_alpha_line(split(r4s_file.contents, linesep)))
         IN  IF parameter = <<>> THEN Raise("IndexError") ELSE Ok(parameter[1])

get_alpha(r4s_file) ==
    IF ~r4s_file.exists THEN Raise("FileNotFoundError")
    ELSE LET parameter == get_num(first_alpha_line(split(r4s_file.contents, linesep)))
         IN  IF parameter = <<>> THEN Raise("Rate4SiteError") ELSE Ok(parameter[1])

\* str.split(): the maximal runs of non-whitespace characters
RECURSIVE words(_)
words(s) ==
    IF s = <<>> THEN <<>>
    ELSE IF Head(s) = " " THEN words(Tail(s))
    ELSE LET n == CHOOSE k \in 1..Len(s) :
                      /\ \A j \in 1..k : s[j] # " "
                      /\ (k = Len(s) \/ s[k + 1] = " ")
         IN  <<SubSeq(s, 1, n)>> \o words(SubSeq(s, n + 1, Len(s)))

\* splitted[parameter], Python's index from 0
extract(string, parameter) ==
    IF parameter + 1 > Len(words(string)) THEN Raise("IndexError")
    ELSE Ok(words(string)[parameter + 1])

\* the lines that do not start with '#'
RECURSIVE not_comment(_)
not_comment(splitted) ==
    IF splitted = <<>> THEN <<>>
    ELSE (IF startswith(Head(splitted), "#") THEN <<>> ELSE <<Head(splitted)>>)
            \o not_comment(Tail(splitted))

\* extract_resi without the test for a leading '#'
extract_resi_keeps_comments(string) == filter_nonempty(split(string, linesep))

extract_resi(string) == filter_nonempty(not_comment(split(string, linesep)))

\* the columns read2matrix appends for one row, in the order of its if-chain:
\* identity 1, score 2, qqint 3, std 4, msa 5
RECURSIVE row_of(_, _, _)
row_of(r, fl, j) ==
    IF j > 5 THEN Ok(<<>>)
    ELSE LET rest == row_of(r, fl, j + 1)
         IN  IF ~fl[j] THEN rest
             ELSE IF extract(r, j).exc # "none" THEN extract(r, j)
             ELSE IF rest.exc # "none" THEN rest
             ELSE Ok(<<extract(r, j).val>> \o rest.val)

RECURSIVE rows_of(_, _)
rows_of(residues, fl) ==
    IF residues = <<>> THEN Ok(<<>>)
    ELSE LET resi == row_of(Head(residues), fl, 1)
             rest == rows_of(Tail(residues), fl)
         IN  IF resi.exc # "none" THEN resi
             ELSE IF rest.exc # "none" THEN rest
             ELSE Ok(<<resi.val>> \o rest.val)

\* l.count(True)
count_true(fl) == Cardinality({j \in 1..5 : fl[j]})

read2matrix(r4s_file, fl) ==
    IF ~r4s_file.exists THEN Raise("FileNotFoundError")
    ELSE LET r2mat == rows_of(extract_resi(r4s_file.contents), fl)
         IN  IF r2mat.exc # "none" THEN r2mat
             ELSE Ok([rows |-> r2mat.val, ncols |-> count_true(fl)])

DefaultFlags == <<TRUE, TRUE, FALSE, FALSE, FALSE>>

\* Rate4Site.finish on instance s with the file at score_output
finish(s, r4s_file) ==
    LET a == get_alpha(r4s_file)
        m == read2matrix(r4s_file, DefaultFlags)
    IN  IF a.exc # "none" THEN [s |-> s, out |-> a]
        ELSE IF m.exc # "none" THEN [s |-> [s EXCEPT !.alpha = a.val], out |-> m]
        ELSE [s |-> [s EXCEPT !.alpha = a.val, !.result = m.val, !.has_run = TRUE],
              out |-> Ok(PyNone)]


\* Rate4Site.run.  Executor.run (biskit) runs the external program once and
\* then calls fail() or finish(); program says what that execution did:
\* whether it wrote the output file, with what, and whether it failed.
\* run without the has_run test: every call goes to Executor.run
run_always_executes(s, r4s_file, program) ==
    LET f == IF program.writes THEN [exists |-> TRUE, contents |-> program.output]
             ELSE r4s_file
        r == finish(s, f)
    IN  IF program.failed
        THEN [s |-> s, file |-> f, out |-> Raise("Rate4SiteError"), execd |-> 1]
        ELSE [s |-> r.s, file |-> f, execd |-> 1,
              out |-> IF r.out.exc = "none" THEN Ok(r.s.result) ELSE r.out]

run(s, r4s_file, program) ==
    LET f == IF program.writes THEN [exists |-> TRUE, contents |-> program.output]
             ELSE r4s_file
        cached == finish(s, r4s_file)
        r == finish(s, f)
    IN  IF s.has_run
        THEN [s |-> cached.s, file |-> r4s_file, execd |-> 0,
              out |-> IF cached.out.exc = "none" THEN Ok(cached.s.result) ELSE cached.out]
        ELSE IF program.failed
        THEN [s |-> s, file |-> f, out |-> Raise("Rate4SiteError"), execd |-> 1]
        ELSE [s |-> r.s, file |-> f, execd |-> 1,
              out |-> IF r.out.exc = "none" THEN Ok(r.s.result) ELSE r.out]

close(s, r4s_file) ==
    [s |-> [s EXCEPT !.has_run = FALSE],
     file |-> IF s.cwd_is_tempdir THEN Absent ELSE r4s_file]

-----------------------------------------------------------------------------
(* The output files the model draws from: every file of at most MaxLines   *)
(* lines taken from OutputLines, each line ended by a line separator.      *)

LineAlpha == <<"#", "a", "l", "p", "h", "a", " ", "p", "a", "r", "a", "m", "e", "t", "e", "r", " ", "1", ".", "2", "3">>
LineAlphaLate == <<"#", "2", " ", "a", "l", "p", "h", "a", " ", "p", "a", "r", "a", "m", "e", "t", "e", "r", " ", ".", "5">>
LineNoNumber == <<"#", "a", "l", "p", "h", "a", " ", "p", "a", "r", "a", "m", "e", "t", "e", "r">>
LineRow6 == <<"1", " ", "M", " ", "0", ".", "5", " ", "q", " ", "0", ".", "1", " ", "3", "/", "3">>
LineRow3 == <<"2", " ", "K", " ", "1", ".", "5">>
LineRow1 == <<"3">>
LineBlank == <<" ">>
OutputLines == {LineAlpha, LineAlphaLate, LineNoNumber,
                LineRow6, LineRow3, LineRow1, LineBlank}

RECURSIVE write_lines(_)
write_lines(ls) ==
    IF ls = <<>> THEN <<>> ELSE Head(ls) \o <<linesep>> \o write_lines(Tail(ls))

FileContents == {write_lines(ls) : ls \in SeqsUpTo(OutputLines, MaxLines)}
Files == {Absent} \cup {[exists |-> TRUE, contents |-> c] : c \in FileContents}

-----------------------------------------------------------------------------
(* SpecParse: the parsers applied to every output file.  get_alpha and     *)
(* read2matrix are classmethods and read nothing but the file, so a        *)
(* behaviour is one call on one file.                                      *)

InitParse ==
    /\ file \in Files
    /\ r4s = Rate4Site(FALSE) /\ flags = NoFlags /\ execs = 0 /\ ok_runs = 0
    /\ op = "init" /\ ret = Ok(PyNone)
    /\ IdleText /\ IdleFinder

CallGetAlpha ==
    /\ op = "init"
    /\ op' = "get_alpha"
    /\ ret' = get_alpha(file)
    /\ UNCHANGED <<r4s, file, flags, execs, ok_runs, textVars, finderVars>>

CallRead2Matrix ==
    \E fl \in [1..5 -> BOOLEAN] :
        /\ op = "init"
        /\ op' = "read2matrix"
        /\ flags' = fl
        /\ ret' = read2matrix(file, fl)
        /\ UNCHANGED <<r4s, file, execs, ok_runs, textVars, finderVars>>

CallFinish ==
    /\ op = "init"
    /\ op' = "finish"
    /\ r4s' = finish(r4s, file).s
    /\ ret' = finish(r4s, file).out
    /\ UNCHANGED <<file, flags, execs, ok_runs, textVars, finderVars>>

NextParse == CallGetAlpha \/ CallRead2Matrix \/ CallFinish

SpecParse == InitParse /\ [][NextParse]_vars

-----------------------------------------------------------------------------
(* SpecR4S: the life of one Rate4Site instance: run() and close().         *)

ProgramOutputs ==
    {write_lines(<<LineAlpha, LineRow6>>), write_lines(<<LineAlphaLate, LineRow3, LineRow6>>),
     write_lines(<<LineRow3>>), write_lines(<<LineAlpha, LineRow1>>)}
Programs == [writes : BOOLEAN, output : ProgramOutputs, failed : BOOLEAN]

InitR4S ==
    /\ r4s \in {Rate4Site(FALSE), Rate4Site(TRUE)}
    /\ file = Absent /\ flags = NoFlags /\ execs = 0 /\ ok_runs = 0
    /\ op = "init" /\ ret = Ok(PyNone)
    /\ IdleText /\ IdleFinder

Run ==
    \E program \in Programs : \E r \in {run(r4s, file, program)} :
        /\ execs + r.execd <= MaxExecs
        /\ op' = "run"
        /\ r4s' = r.s
        /\ file' = r.file
        /\ ret' = r.out
        /\ execs' = execs + r.execd
        /\ ok_runs' = IF r.out.exc # "none" THEN ok_runs
                      ELSE IF ok_runs = 0 THEN 1 ELSE 2
        /\ UNCHANGED <<flags, textVars, finderVars>>

Close ==
    /\ op' = "close"
    /\ r4s' = close(r4s, file).s
    /\ file' = close(r4s, file).file
    /\ ret' = Ok(PyNone)
    /\ ok_runs' = 0
    /\ UNCHANGED <<flags, execs, textVars, finderVars>>

NextR4S == Run \/ Close

SpecR4S == InitR4S /\ [][NextR4S]_vars

-----------------------------------------------------------------------------
(* Claims about the Rate4Site instance (specification SpecR4S).            *)

\* C5: after a successful run(), every later run() before close() replays the
\* result from the output file without invoking the external program; with no
\* successful run since construction or close(), run() invokes the program.
C5_CachedUntilClose ==
    [][ /\ (op' = "run" /\ ok_runs > 0)
            => /\ execs' = execs
               /\ file' = file
               /\ ret'.exc = "none"
               /\ ret'.val = read2matrix(file, DefaultFlags).val
        /\ (op' = "run" /\ ok_runs = 0) => execs' = execs + 1 ]_vars

C5_Witness ==
    /\ op = "run" /\ ok_runs = 2 /\ execs = 2
    /\ ret.exc = "none" /\ Len(ret.val.rows) = 2

-----------------------------------------------------------------------------
(* Claims about the parsers (specification SpecParse).                     *)

OutputText == split(file.contents, linesep)
HasDigit(l) == \E i \in 1..Len(l) : l[i] \in Digits

\* C6: get_alpha and read2matrix (and finish, which calls them) fail with
\* FileNotFoundError when the output file does not exist, and get_alpha fails
\* with Rate4SiteError when the file exists but no line holds 'alpha parameter'
\* together with a number.
C6_ParsingFailures ==
    /\ (op \in {"get_alpha", "read2matrix", "finish"} /\ ~file.exists)
          => ret.exc = "FileNotFoundError"
    /\ (/\ op \in {"get_alpha", "finish"}
        /\ file.exists
        /\ ~\E i \in 1..Len(OutputText) :
              search_alpha(OutputText[i]) /\ HasDigit(OutputText[i]))
          => ret.exc = "Rate4SiteError"

C6_Witness ==
    /\ op = "finish"
    /\ file = [exists |-> TRUE, contents |-> write_lines(<<LineNoNumber, LineRow3>>)]
    /\ ret.exc = "Rate4SiteError"
    /\ ~r4s.has_run

\* the data lines of the file: non-empty and not starting with '#'
IsDataLine(l) == l # <<>> /\ l[1] # "#"
DataLines == SelectSeq(OutputText, IsDataLine)
Enabled == {j \in 1..5 : flags[j]}
Column(j) == Cardinality({i \in Enabled : i <= j})
HasFields(l) == \A j \in Enabled : Len(words(l)) >= j + 1
\* the matrix has a row per data line and a column per enabled flag, row k
\* holding the enabled fields of the k-th data line in the order of the flags
MatrixOfDataLines ==
    /\ ret.exc = "none"
    /\ ret.val.ncols = Cardinality(Enabled)
    /\ Len(ret.val.rows) = Len(DataLines)
    /\ \A k \in 1..Len(DataLines) :
          /\ Len(ret.val.rows[k]) = Cardinality(Enabled)
          /\ \A j \in Enabled : ret.val.rows[k][Column(j)] = words(DataLines[k])[j + 1]

\* C7 as stated: for any output text and any flags, read2matrix returns the
\* matrix of the data lines.
C7_AnyTextGivesMatrix ==
    (op = "read2matrix" /\ file.exists) => MatrixOfDataLines

\* C7 as amended: read2matrix returns the matrix of the data lines when every
\* data line has a word for every enabled flag (word j for flag j, the words
\* counted from 0), and fails with IndexError otherwise.
C7_MatrixWhenFieldsPresent ==
    (op = "read2matrix" /\ file.exists) =>
        IF \A k \in 1..Len(DataLines) : HasFields(DataLines[k])
        THEN MatrixOfDataLines
        ELSE ret.exc = "IndexError"

C7_Witness ==
    /\ op = "read2matrix"
    /\ flags = DefaultFlags
    /\ file.exists /\ Len(DataLines) = 3
    /\ ret.exc = "none"
    /\ Len(ret.val.rows) = 3 /\ ret.val.ncols = 2
    /\ ret.val.rows[2] = <<<<"K">>, <<"1", ".", "5">>>>

\* the first line of the file that holds 'alpha parameter'
AlphaLine ==
    OutputText[CHOOSE i \in 1..Len(OutputText) :
                  /\ search_alpha(OutputText[i])
                  /\ \A j \in 1..(i-1) : ~search_alpha(OutputText[j])]
\* t is digits with an optional decimal point, ending in a digit
IsNumber(t) ==
    /\ t # <<>> /\ t[Len(t)] \in Digits
    /\ \A i \in 1..Len(t) : t[i] \in Digits \cup {"."}
    /\ Cardinality({i \in 1..Len(t) : t[i] = "."}) <= 1
NumberStarts(l) == {p \in 1..Len(l) : \E q \in p..Len(l) : IsNumber(SubSeq(l, p, q))}
FirstStart(l) == CHOOSE p \in NumberStarts(l) : \A p2 \in NumberStarts(l) : p <= p2
FirstEnd(l) ==
    CHOOSE q \in FirstStart(l)..Len(l) :
        /\ IsNumber(SubSeq(l, FirstStart(l), q))
        /\ \A q2 \in (q+1)..Len(l) : ~IsNumber(SubSeq(l, FirstStart(l), q2))
AlphaText == AlphaLiteral \o <<" ", "1", ".", "2", "3">>

\* C8: get_alpha returns the first number of the first line that holds
\* 'alpha parameter'; when that line reads 'alpha parameter 1.23' with no digit
\* before it, the value is 1.23, whatever lines and numbers follow.
C8_FirstNumberOfAlphaLine ==
    (op = "get_alpha" /\ file.exists
        /\ \E i \in 1..Len(OutputText) : search_alpha(OutputText[i])
        /\ HasDigit(AlphaLine)) =>
        /\ ret.exc = "none"
        /\ ret.val = to_float(SubSeq(AlphaLine, FirstStart(AlphaLine), FirstEnd(AlphaLine)),
                              1, 0, 0)
        /\ \A i \in 1..Len(AlphaLine) :
              (/\ i + Len(AlphaText) - 1 <= Len(AlphaLine)
               /\ SubSeq(AlphaLine, i, i + Len(AlphaText) - 1) = AlphaText
               /\ ~HasDigit(SubSeq(AlphaLine, 1, i - 1))
               /\ (i + Len(AlphaText) > Len(AlphaLine)
                     \/ AlphaLine[i + Len(AlphaText)] \notin Digits))
                  => ret.val = <<123, 2>>

C8_Witness ==
    /\ op = "get_alpha"
    /\ file = [exists |-> TRUE,
               contents |-> write_lines(<<LineRow3, LineAlpha, LineAlphaLate>>)]
    /\ ret = Ok(<<123, 2>>)

====
